---- MODULE Spec2Model ----
(***************************************************************************)
(* json2ciw: construction-time validation of a ProcessModel                *)
(* (schema.py, ProcessModel.validate_transition_rows) and its compilation  *)
(* into Ciw parameters (engine.py, CiwConverter.generate_params).          *)
(*                                                                         *)
(* A probability is a real number of the form d/10 + n * 1e-9 and is held  *)
(* exactly as the record [d, n]; |n| stays far below 10^8, so the pair is  *)
(* a unique representation and comparisons are lexicographic.  Floating    *)
(* point rounding (about 1e-16) is far below the validator's tolerance of  *)
(* 1e-9 and is not modelled.                                               *)
(***************************************************************************)
EXTENDS Integers, Sequences, FiniteSets, TLC

VARIABLES activities, transitions, pc, validated, verr, params

vars == <<activities, transitions, pc, validated, verr, params>>

\* ------------------------------------------------------------------ bounds
MaxActivities == 2
MaxTransitions == 2

\* ------------------------------------------------------- exact arithmetic
Prob(d, n) == [d |-> d, n |-> n]
Zero == Prob(0, 0)
One == Prob(10, 0)
Add(p, q) == Prob(p.d + q.d, p.n + q.n)
Sub(p, q) == Prob(p.d - q.d, p.n - q.n)
Less(p, q) == p.d < q.d \/ (p.d = q.d /\ p.n < q.n)
Leq(p, q) == p = q \/ Less(p, q)
Abs(p) == IF Less(p, Zero) THEN Sub(Zero, p) ELSE p

Range(s) == {s[i] : i \in DOMAIN s}
SeqsUpTo(S, k) == UNION {[1..m -> S] : m \in 0..k}

\* ------------------------------------------------------------ schema.py
DistributionTypes == {"exponential", "triangular", "uniform", "deterministic"}

\* Optional[Distribution] = None
NoDistribution == [type |-> "None", parameters |-> <<>>]

Distribution(type, parameters) == [type |-> type, parameters |-> parameters]

Resource(capacity) == [capacity |-> capacity]

Activity(name, resource, service_distribution, arrival_distribution) ==
    [name |-> name, resource |-> resource,
     service_distribution |-> service_distribution,
     arrival_distribution |-> arrival_distribution]

Transition(source, target, probability) ==
    [source |-> source, target |-> target, probability |-> probability]

\* The result of constructing a ProcessModel: the model itself (kind "ok") or
\* the ValueError raised; names and sums are what the message contains.
Accepted == [ok |-> TRUE, kind |-> "ok", names |-> <<>>, sums |-> <<>>]
ValidationError(kind, names, sums) ==
    [ok |-> FALSE, kind |-> kind, names |-> names, sums |-> sums]

\* The field constraints pydantic checks before the model validator runs.
DistributionFieldOk(dist) == dist.type \in DistributionTypes
ActivityFieldsOk(a) ==
    /\ a.resource.capacity > 0
    /\ DistributionFieldOk(a.service_distribution)
    /\ a.arrival_distribution # NoDistribution
          => DistributionFieldOk(a.arrival_distribution)
TransitionFieldsOk(t) == Leq(Zero, t.probability) /\ Leq(t.probability, One)
FieldsOk(acts, trans) ==
    /\ \A i \in DOMAIN acts : ActivityFieldsOk(acts[i])
    /\ \A k \in DOMAIN trans : TransitionFieldsOk(trans[k])

activity_names(acts) == {acts[i].name : i \in DOMAIN acts}
\* a validator that also lets the target "Finish" through
allowed_targets_lax(acts) == activity_names(acts) \cup {"Exit", "Finish"}

allowed_targets(acts) == activity_names(acts) \cup {"Exit"}

\* probs_by_source after the loop over the first k transitions, read with
\* .get(name, 0.0)
RECURSIVE probs_by_source(_, _, _)
probs_by_source(trans, k, name) ==
    IF k = 0 THEN Zero
    ELSE IF trans[k].source = name
         THEN Add(probs_by_source(trans, k - 1, name), trans[k].probability)
         ELSE probs_by_source(trans, k - 1, name)

tol == Prob(0, 1)

\* The first transition the reference loop raises on, 0 if it raises on none.
RECURSIVE first_bad_reference(_, _, _)
first_bad_reference(acts, trans, k) ==
    IF k > Len(trans) THEN 0
    ELSE IF \/ trans[k].source \notin activity_names(acts)
            \/ trans[k].target \notin allowed_targets(acts)
         THEN k
         ELSE first_bad_reference(acts, trans, k + 1)

is_missing(total) == total = Zero
\* the comparison without abs(): a total below 1.0 is let through
is_bad_sum_signed(total) == ~is_missing(total) /\ Less(tol, Sub(total, One))

is_bad_sum(total) == ~is_missing(total) /\ Less(tol, Abs(Sub(total, One)))

\* missing_sources and bad_sums, built over the first i activities
RECURSIVE missing_sources(_, _, _)
missing_sources(acts, trans, i) ==
    IF i = 0 THEN <<>>
    ELSE LET total == probs_by_source(trans, Len(trans), acts[i].name)
             rest == missing_sources(acts, trans, i - 1)
         IN IF is_missing(total) THEN Append(rest, acts[i].name) ELSE rest

RECURSIVE bad_sums(_, _, _)
bad_sums(acts, trans, i) ==
    IF i = 0 THEN <<>>
    ELSE LET total == probs_by_source(trans, Len(trans), acts[i].name)
             rest == bad_sums(acts, trans, i - 1)
         IN IF is_bad_sum(total)
            THEN Append(rest, <<acts[i].name, total>>) ELSE rest

validate_transition_rows(acts, trans) ==
    LET k == first_bad_reference(acts, trans, 1)
        missing == missing_sources(acts, trans, Len(acts))
        bad == bad_sums(acts, trans, Len(acts))
    IN IF k # 0
       THEN IF trans[k].source \notin activity_names(acts)
            THEN ValidationError("unknown_source", <<trans[k].source>>, <<>>)
            ELSE ValidationError("unknown_target", <<trans[k].target>>, <<>>)
       ELSE IF missing # <<>>
       THEN ValidationError("missing_outgoing", missing, <<>>)
       ELSE IF bad # <<>>
       THEN ValidationError("bad_sum",
                            [j \in DOMAIN bad |-> bad[j][1]],
                            [j \in DOMAIN bad |-> bad[j][2]])
       ELSE Accepted

\* ProcessModel(**data): field validation, then the mode="after" validator
ProcessModel(acts, trans) ==
    IF ~FieldsOk(acts, trans)
    THEN ValidationError("field_validation", <<>>, <<>>)
    ELSE validate_transition_rows(acts, trans)

\* ------------------------------------------------------------ engine.py
\* 1 / p["rate"], kept as the fraction num/den
Ratio(num, den) == [num |-> num, den |-> den]

\* A ciw.dists object, and Python's None in a list of them
CiwDist(dist, args) == [dist |-> dist, args |-> args]
CiwNone == CiwDist("None", <<>>)

Made(obj) == [ok |-> TRUE, kind |-> "dist", names |-> <<>>, obj |-> obj]
Raised(kind, names) == [ok |-> FALSE, kind |-> kind, names |-> names, obj |-> CiwNone]

\* the first of the keys, in the order the call reads them, that p lacks
RECURSIVE first_missing_key(_, _, _)
first_missing_key(p, keys, j) ==
    IF j > Len(keys) THEN 0
    ELSE IF keys[j] \notin DOMAIN p THEN j
    ELSE first_missing_key(p, keys, j + 1)

make_args(dist, p, keys) ==
    LET j == first_missing_key(p, keys, 1)
    IN IF j # 0 THEN Raised("KeyError", <<keys[j]>>)
       ELSE Made(CiwDist(dist, [m \in DOMAIN keys |-> p[keys[m]]]))

_make_ciw_dist(dist_obj) ==
    LET p == dist_obj.parameters
    IN IF dist_obj.type = "exponential"
       THEN IF "rate" \notin DOMAIN p THEN Raised("KeyError", <<"rate">>)
            ELSE IF p["rate"] = 0 THEN Raised("ZeroDivisionError", <<>>)
            ELSE Made(CiwDist("Exponential", <<Ratio(1, p["rate"])>>))
       ELSE IF dist_obj.type = "triangular"
       THEN make_args("Triangular", p, <<"min", "mode", "max">>)
       ELSE IF dist_obj.type = "uniform"
       THEN make_args("Uniform", p, <<"min", "max">>)
       ELSE IF dist_obj.type = "deterministic"
       THEN make_args("Deterministic", p, <<"value">>)
       ELSE Raised("unsupported_type", <<dist_obj.type>>)

\* What generate_params returns (kind "bundle") or the exception it raises;
\* list and matrix positions are 1-based here, 0-based in Python.
Bundle(servers, arrivals, services, routing) ==
    [ok |-> TRUE, kind |-> "bundle", names |-> <<>>,
     number_of_servers |-> servers, arrival_distributions |-> arrivals,
     service_distributions |-> services, routing |-> routing]
CompileError(kind, names) ==
    [ok |-> FALSE, kind |-> kind, names |-> names,
     number_of_servers |-> <<>>, arrival_distributions |-> <<>>,
     service_distributions |-> <<>>, routing |-> <<>>]

\* a map that keeps the first index of a name
node_map_first(acts) ==
    [nm \in activity_names(acts) |->
        CHOOSE i \in DOMAIN acts :
            /\ acts[i].name = nm
            /\ \A j \in DOMAIN acts : acts[j].name = nm => i <= j]

\* {act.name: i for i, act in enumerate(activities)}: a later entry replaces
\* an earlier one with the same key
node_map(acts) ==
    [nm \in activity_names(acts) |->
        CHOOSE i \in DOMAIN acts :
            /\ acts[i].name = nm
            /\ \A j \in DOMAIN acts : acts[j].name = nm => j <= i]

server_entry(act) == act.resource.capacity

service_entry(act) == _make_ciw_dist(act.service_distribution)

\* a zero-duration distribution in place of None
arrival_entry_zero(act) ==
    IF act.arrival_distribution # NoDistribution
    THEN _make_ciw_dist(act.arrival_distribution)
    ELSE Made(CiwDist("Deterministic", <<0>>))

arrival_entry(act) ==
    IF act.arrival_distribution # NoDistribution
    THEN _make_ciw_dist(act.arrival_distribution)
    ELSE Made(CiwNone)

\* the three lists after the first i iterations of the loop over activities
RECURSIVE node_properties(_, _)
node_properties(acts, i) ==
    IF i = 0 THEN Bundle(<<>>, <<>>, <<>>, <<>>)
    ELSE LET prev == node_properties(acts, i - 1)
             svc == service_entry(acts[i])
             arr == arrival_entry(acts[i])
         IN IF ~prev.ok THEN prev
            ELSE IF ~svc.ok THEN CompileError(svc.kind, svc.names)
            ELSE IF ~arr.ok THEN CompileError(arr.kind, arr.names)
            ELSE Bundle(Append(prev.number_of_servers, server_entry(acts[i])),
                        Append(prev.arrival_distributions, arr.obj),
                        Append(prev.service_distributions, svc.obj),
                        <<>>)

zero_matrix(n) == [u \in 1..n |-> [v \in 1..n |-> Zero]]

references_unknown_node(acts, t) ==
    t.source \notin DOMAIN node_map(acts) \/ t.target \notin DOMAIN node_map(acts)

write_entry(routing, u_idx, v_idx, probability) ==
    [routing EXCEPT ![u_idx][v_idx] = probability]

\* the routing matrix after the first k iterations of the loop over transitions
RECURSIVE build_routing(_, _, _)
build_routing(acts, trans, k) ==
    IF k = 0 THEN Bundle(<<>>, <<>>, <<>>, zero_matrix(Len(acts)))
    ELSE LET prev == build_routing(acts, trans, k - 1)
             t == trans[k]
         IN IF ~prev.ok \/ t.target = "Exit" THEN prev
            ELSE IF references_unknown_node(acts, t)
            THEN CompileError("unknown_node", <<t.source, t.target>>)
            ELSE Bundle(<<>>, <<>>, <<>>,
                        write_entry(prev.routing, node_map(acts)[t.source],
                                    node_map(acts)[t.target], t.probability))

generate_params(acts, trans) ==
    LET nodes == node_properties(acts, Len(acts))
        routed == build_routing(acts, trans, Len(trans))
    IN IF ~nodes.ok THEN nodes
       ELSE IF ~routed.ok THEN routed
       ELSE Bundle(nodes.number_of_servers, nodes.arrival_distributions,
                   nodes.service_distributions, routed.routing)

\* ------------------------------------------------------------------ inputs
Names == {"A", "B"}
Sources == Names \cup {"X"}
Targets == Names \cup {"Exit", "Finish"}

Half == Prob(5, 0)
RoutingEdges ==
    {Transition(s, t, p) : s \in Sources, t \in Targets, p \in {Zero, Half, One}}
ToleranceEdges ==
    {Transition("A", "Exit", p) :
        p \in {Prob(0, 1), Prob(0, 2), Prob(10, -1), Prob(10, -2)}}
TransitionPool == RoutingEdges \cup ToleranceEdges
ExitEdges == {Transition("A", "Exit", One), Transition("B", "Exit", One),
              Transition("A", "B", One)}

Params1(k1, v1) == [k \in {k1} |-> v1]
Params2(k1, v1, k2, v2) == [k \in {k1, k2} |-> IF k = k1 THEN v1 ELSE v2]
Params3(k1, v1, k2, v2, k3, v3) ==
    [k \in {k1, k2, k3} |-> IF k = k1 THEN v1 ELSE IF k = k2 THEN v2 ELSE v3]

Exp(rate) == Distribution("exponential", Params1("rate", rate))
Det(value) == Distribution("deterministic", Params1("value", value))
Uni(lo, hi) == Distribution("uniform", Params2("min", lo, "max", hi))
Tri(lo, mode, hi) ==
    Distribution("triangular", Params3("min", lo, "mode", mode, "max", hi))
UniNoMax == Distribution("uniform", Params1("min", 1))
LogNormal == Distribution("lognormal", Params2("mean", 1, "sd", 1))

\* (capacity, service_distribution, arrival_distribution)
PlainProfile == <<1, Exp(4), NoDistribution>>
Profiles ==
    {PlainProfile,
     <<2, Det(3), Exp(2)>>,
     <<1, Tri(1, 2, 3), Uni(1, 2)>>,
     <<1, Exp(0), NoDistribution>>,
     <<1, UniNoMax, NoDistribution>>,
     <<1, LogNormal, NoDistribution>>,
     <<1, Det(3), LogNormal>>,
     <<0, Det(3), NoDistribution>>}

MakeActivity(name, profile) ==
    Activity(name, Resource(profile[1]), profile[2], profile[3])

\* models that differ in names and routing, every node configured alike
RoutingInputs ==
    /\ activities \in SeqsUpTo({MakeActivity(nm, PlainProfile) : nm \in Names},
                               MaxActivities)
    /\ transitions \in SeqsUpTo(TransitionPool, MaxTransitions)

\* models that differ in the nodes' configuration, with plain routing
NodeInputs ==
    /\ activities \in SeqsUpTo({MakeActivity(nm, pr) : nm \in Names, pr \in Profiles},
                               MaxActivities)
    /\ transitions \in SeqsUpTo(ExitEdges, MaxTransitions)

NotRun == CompileError("not_run", <<>>)
NotBuilt == ValidationError("not_run", <<>>, <<>>)

Init ==
    /\ RoutingInputs \/ NodeInputs
    /\ pc = "raw"
    /\ validated = FALSE
    /\ verr = NotBuilt
    /\ params = NotRun

\* ProcessModel(**data)
Construct ==
    /\ pc = "raw"
    /\ verr' = ProcessModel(activities, transitions)
    /\ validated' = verr'.ok
    /\ pc' = IF verr'.ok THEN "model" ELSE "rejected"
    /\ UNCHANGED <<activities, transitions, params>>

\* CiwConverter(model).generate_params() on a constructed ProcessModel
Compile ==
    /\ pc = "model"
    /\ params' = generate_params(activities, transitions)
    /\ pc' = "compiled"
    /\ UNCHANGED <<activities, transitions, validated, verr>>

\* CiwConverter(model).generate_params() on a model that did not pass through
\* the validator (CiwConverter.__init__ accepts any object)
CompileUnvalidated ==
    /\ pc = "raw"
    /\ params' = generate_params(activities, transitions)
    /\ pc' = "compiled"
    /\ UNCHANGED <<activities, transitions, validated, verr>>

Next == Construct \/ Compile \/ CompileUnvalidated

Spec == Init /\ [][Next]_vars

\* ------------------------------------------------------------------ claims
\* The sum of the probabilities of the transitions with the indices in I
RECURSIVE SumOver(_, _)
SumOver(trans, I) ==
    IF I = {} THEN Zero
    ELSE LET k == CHOOSE k \in I : TRUE
         IN Add(trans[k].probability, SumOver(trans, I \ {k}))

OutgoingSum(nm) ==
    SumOver(transitions, {k \in DOMAIN transitions : transitions[k].source = nm})
ExitSum(nm) ==
    SumOver(transitions, {k \in DOMAIN transitions :
                             /\ transitions[k].source = nm
                             /\ transitions[k].target = "Exit"})

\* |p - 1.0| <= 1e-9
NearOne(p) == p.d = 10 /\ p.n >= -1 /\ p.n <= 1

NameSet == {activities[i].name : i \in DOMAIN activities}
SourceKnown(k) == transitions[k].source \in NameSet
TargetKnown(k) ==
    transitions[k].target \in NameSet \/ transitions[k].target = "Exit"
ReferencesKnown == \A k \in DOMAIN transitions : SourceKnown(k) /\ TargetKnown(k)
RowsConserved == \A i \in DOMAIN activities : NearOne(OutgoingSum(activities[i].name))

N == Len(activities)
Built == verr.kind # "not_run"
BuiltWithValidFields == Built /\ verr.kind # "field_validation"
CompiledValidated == pc = "compiled" /\ validated
CompiledUnvalidated == pc = "compiled" /\ ~validated
Reported == Range(verr.names)

\* C1: construction succeeds exactly when every transition's source is an
\* activity, every target is an activity or "Exit", and every activity's
\* outgoing probabilities sum to 1.0 within 1e-9.
C1_ConstructionGate ==
    BuiltWithValidFields => (verr.ok <=> (ReferencesKnown /\ RowsConserved))

\* C1 witness: a model rejected because of one activity alone, the other
\* activity's row being within the tolerance without being exactly 1.0.
C1_Witness ==
    /\ BuiltWithValidFields /\ ~verr.ok /\ ReferencesKnown
    /\ N = 2 /\ activities[1].name # activities[2].name
    /\ NearOne(OutgoingSum(activities[1].name))
    /\ OutgoingSum(activities[1].name) # One
    /\ ~NearOne(OutgoingSum(activities[2].name))
    /\ OutgoingSum(activities[2].name) # Zero

\* C2: a failed construction reports every offending transition and activity
\* in its one error.
C2_AllViolationsReported ==
    (BuiltWithValidFields /\ ~verr.ok) =>
        /\ \A k \in DOMAIN transitions :
              ~SourceKnown(k) => transitions[k].source \in Reported
        /\ \A k \in DOMAIN transitions :
              ~TargetKnown(k) => transitions[k].target \in Reported
        /\ \A i \in DOMAIN activities :
              ~NearOne(OutgoingSum(activities[i].name))
                  => activities[i].name \in Reported

\* C3: a model with a transition to an unknown target is rejected with an
\* unknown-target error naming that target.
C3_UnknownTargetNamed ==
    BuiltWithValidFields =>
        \A k \in DOMAIN transitions :
            ~TargetKnown(k) =>
                /\ ~verr.ok
                /\ verr.kind = "unknown_target"
                /\ transitions[k].target \in Reported

Index(nm) == node_map(activities)[nm]
Internal(k) == transitions[k].target # "Exit"
Addressed(u, v) ==
    \E k \in DOMAIN transitions :
        Internal(k) /\ Index(transitions[k].source) = u
                    /\ Index(transitions[k].target) = v
Square(m) == DOMAIN m = 1..N /\ \A u \in 1..N : DOMAIN m[u] = 1..N

\* C4: the routing matrix of a validated model is N x N with entries in
\* [0, 1], holds each internal transition's probability at
\* [index(source)][index(target)] and 0.0 everywhere else.
C4_RoutingEntries ==
    (CompiledValidated /\ params.ok) =>
        /\ Square(params.routing)
        /\ \A u, v \in 1..N :
              /\ Leq(Zero, params.routing[u][v])
              /\ Leq(params.routing[u][v], One)
              /\ ~Addressed(u, v) => params.routing[u][v] = Zero
        /\ \A k \in DOMAIN transitions :
              Internal(k) =>
                  params.routing[Index(transitions[k].source)]
                                [Index(transitions[k].target)]
                      = transitions[k].probability

RECURSIVE RowSum(_, _)
RowSum(row, v) == IF v = 0 THEN Zero ELSE Add(RowSum(row, v - 1), row[v])

\* C5: for a validated model each row sum plus the activity's probability of
\* leaving to "Exit" is 1.0 within 1e-9, and no row sum exceeds 1.0.
C5_SinkProbability ==
    (CompiledValidated /\ params.ok) =>
        \A i \in 1..N :
            /\ NearOne(Add(RowSum(params.routing[i], N), ExitSum(activities[i].name)))
            /\ Leq(RowSum(params.routing[i], N), One)

\* C6: the three per-node lists have one entry per activity, in the
\* activities' order: the capacity, a service distribution that is never
\* None, and an arrival distribution that is None exactly when the activity
\* has none.
C6_PerNodeLists ==
    (pc = "compiled" /\ params.ok) =>
        /\ Len(params.number_of_servers) = N
        /\ Len(params.service_distributions) = N
        /\ Len(params.arrival_distributions) = N
        /\ \A i \in 1..N :
              /\ params.number_of_servers[i] = activities[i].resource.capacity
              /\ params.service_distributions[i] # CiwNone
              /\ params.service_distributions[i].dist # "None"
              /\ (params.arrival_distributions[i] = CiwNone)
                    <=> (activities[i].arrival_distribution = NoDistribution)

\* C6 witness: a bundle for two nodes of different capacity, one with
\* external arrivals and one without.
C6_Witness ==
    /\ pc = "compiled" /\ params.ok /\ N = 2
    /\ activities[1].resource.capacity # activities[2].resource.capacity
    /\ \E i, j \in 1..N :
          /\ activities[i].arrival_distribution = NoDistribution
          /\ activities[j].arrival_distribution # NoDistribution

Dists(i) ==
    {activities[i].service_distribution} \cup
        ({activities[i].arrival_distribution} \ {NoDistribution})
Unsupported(i) == {d \in Dists(i) : d.type \notin DistributionTypes}

\* C7: a model with an unsupported distribution type yields no bundle, and
\* the unsupported-type error names the type and the activity it belongs to.
C7_UnsupportedTypeNamed ==
    (pc = "compiled" /\ \E i \in 1..N : Unsupported(i) # {}) =>
        /\ ~params.ok
        /\ params.kind = "unsupported_type" =>
              \E i \in 1..N : \E d \in Unsupported(i) :
                  /\ d.type \in Range(params.names)
                  /\ activities[i].name \in Range(params.names)

DispatchErrors == {"unsupported_type", "KeyError", "ZeroDivisionError"}

\* C8: when every node's distributions are built, an unvalidated model with
\* a transition whose source, or whose target other than "Exit", is no
\* activity is rejected with the unknown-node-reference error.
C8_UnknownNodeRejected ==
    (/\ CompiledUnvalidated
     /\ params.kind \notin DispatchErrors
     /\ \E k \in DOMAIN transitions : ~SourceKnown(k) \/ ~TargetKnown(k)) =>
        ~params.ok /\ params.kind = "unknown_node"

RequiredKeys(type) ==
    IF type = "exponential" THEN {"rate"}
    ELSE IF type = "triangular" THEN {"min", "mode", "max"}
    ELSE IF type = "uniform" THEN {"min", "max"}
    ELSE {"value"}
Complete(d) == RequiredKeys(d.type) \subseteq DOMAIN d.parameters
AllSupportedAndComplete ==
    \A i \in 1..N : \A d \in Dists(i) : d.type \in DistributionTypes /\ Complete(d)
NonZeroRates ==
    \A i \in 1..N : \A d \in Dists(i) :
        (d.type = "exponential" /\ Complete(d)) => d.parameters["rate"] # 0

LastWithName(i) == \A j \in 1..N : activities[j].name = activities[i].name => j <= i
HasDuplicateName == \E i \in 1..N : ~LastWithName(i)
LastFor(k) ==
    \A m \in DOMAIN transitions :
        (/\ Internal(m)
         /\ transitions[m].source = transitions[k].source
         /\ transitions[m].target = transitions[k].target) => m <= k

\* C10: activity names need not be unique.  A model with a shared name is
\* accepted whenever its references are known and the rows sum to 1.0; its
\* bundle has one list entry per activity, every internal transition is
\* written at the last node bearing the name, and the rows and columns of
\* the earlier nodes bearing it are all 0.0.
C10_DuplicateNames ==
    /\ (BuiltWithValidFields /\ HasDuplicateName /\ ReferencesKnown /\ RowsConserved)
          => verr.ok
    /\ (CompiledValidated /\ params.ok /\ HasDuplicateName) =>
          /\ Len(params.number_of_servers) = N
          /\ Len(params.service_distributions) = N
          /\ Len(params.arrival_distributions) = N
          /\ Square(params.routing)
          /\ \A i \in 1..N : \A v \in 1..N :
                ~LastWithName(i) =>
                    params.routing[i][v] = Zero /\ params.routing[v][i] = Zero
          /\ \A k \in DOMAIN transitions :
                (Internal(k) /\ LastFor(k)) =>
                    \E u, v \in 1..N :
                        /\ activities[u].name = transitions[k].source
                        /\ activities[v].name = transitions[k].target
                        /\ LastWithName(u) /\ LastWithName(v)
                        /\ params.routing[u][v] = transitions[k].probability

\* C10 witness: two activities share a name, the model is accepted, and a
\* transition from and to that name is written at the second one.
C10_Witness ==
    /\ CompiledValidated /\ params.ok /\ N = 2
    /\ activities[1].name = activities[2].name
    /\ params.routing[2][2] # Zero
    /\ params.routing[1][1] = Zero

====
